---- MODULE Spec2Model ----
(***************************************************************************)
(* A model of drace's Z202 rule (src/drace/darkian/z200/z202.py): the      *)
(* Canonicalizer, canonical_block_dump, collect_sequences and check.       *)
(*                                                                         *)
(* Syntax trees are nested records.  Every node carries the same fields:   *)
(*   type     the ast class name                                           *)
(*   name     id of a Name, attr of an Attribute, arg of an arg, name of a *)
(*            FunctionDef/ClassDef, repr(value) of a Constant              *)
(*   ctx      "Load" / "Store" for Name and Attribute                      *)
(*   kids     expression children in _fields order (value, targets+value,  *)
(*            func+args, test, the args of a FunctionDef, bases of a       *)
(*            ClassDef, target+iter of a For, the withitems of a With, the *)
(*            type of an ExceptHandler)                                    *)
(*   body, handlers, orelse, finalbody, deco (decorator_list), returns (0  *)
(*            or 1 node)                                                   *)
(*   lineno, end_lineno   0 when the node has no such attribute            *)
(* ast.dump output and dict keys are real strings, built as Python 3.11    *)
(* builds them; a hash is identified with the dump it digests (sha256 is   *)
(* taken to be collision free).                                            *)
(***************************************************************************)
EXTENDS Integers, Sequences, FiniteSets, TLC

VARIABLES
    tree,            \* the caller's syntax tree (a Module node), as it is now
    input,           \* the tree as the caller passed it (never written)
    sequences,       \* collect_sequences: dict hash -> [(start, end, dumped)], in insertion order
    walked,          \* the windows recorded so far, in order: [blk, length, i, h]
    blk, length, i,  \* BodyWalker position: block index, window length, offset
    pc,              \* position in the run
    candidates,      \* check: the candidate meta list
    ci,              \* check: index of the candidate the selection loop is at
    selected,        \* check: the selected list
    occupied_lines,  \* check: lines claimed by chosen candidates
    results          \* check: the diagnostics returned

vars == <<tree, input, sequences, walked, blk, length, i, pc,
          candidates, ci, selected, occupied_lines, results>>

(***************************************************************************)
(* Bounds of the model and constants of the program.                       *)
(***************************************************************************)
MaxStmts == 4        \* statements in the module body of an input tree
MaxCompound == 1     \* statements with bodies among them
MaxLong == 7         \* statements in the module body when all are simple
min_len == 2
max_len == 6
min_occurrences == 3 \* occurrences below which a pattern is dropped

(***************************************************************************)
(* Nodes.                                                                  *)
(***************************************************************************)
\* the list f[1], f[2], ... of a function on 1..n
List(f) == f \o <<>>

Node(type, name, ctx, kids, body, handlers, orelse, finalbody, deco, returns, lineno, end_lineno) ==
    [type |-> type, name |-> name, ctx |-> ctx, kids |-> kids, body |-> body,
     handlers |-> handlers, orelse |-> orelse, finalbody |-> finalbody,
     deco |-> deco, returns |-> returns, lineno |-> lineno, end_lineno |-> end_lineno]

\* a node without statement lists, not yet located
ExprNode(type, name, ctx, kids) ==
    Node(type, name, ctx, kids, <<>>, <<>>, <<>>, <<>>, <<>>, <<>>, 0, 0)

Leaf(type, name, ctx) == ExprNode(type, name, ctx, <<>>)

Name(id, ctx) == Leaf("Name", id, ctx)
Constant(r) == Leaf("Constant", r, "")
Attribute(value, attr) == ExprNode("Attribute", attr, "Load", <<value>>)
Call(func, args) == ExprNode("Call", "", "", <<func>> \o args)
withitem(context_expr, optional_vars) ==
    ExprNode("withitem", "", "", <<context_expr>> \o optional_vars)
Module(body) == Node("Module", "", "", <<>>, body, <<>>, <<>>, <<>>, <<>>, <<>>, 0, 0)

\* 'lineno' in node._attributes: statements, expressions, args and handlers
HasLocation(type) == type \notin {"Module", "withitem"}

RECURSIVE At(_, _)
\* the expression node as the parser locates it on line ln
At(node, ln) ==
    [node EXCEPT !.lineno = IF HasLocation(node.type) THEN ln ELSE 0,
                 !.end_lineno = IF HasLocation(node.type) THEN ln ELSE 0,
                 !.kids = List([k \in 1..Len(node.kids) |-> At(node.kids[k], ln)])]

AtAll(nodes, ln) == List([k \in 1..Len(nodes) |-> At(nodes[k], ln)])

(***************************************************************************)
(* Canonicalizer.  A canonicalizer state is                                *)
(*   [name_map, const_map, n_name, n_const]                                *)
(* where a map is the dict as the sequence of its <<key, value>> items in  *)
(* insertion order.                                                        *)
(***************************************************************************)
NewCanonicalizer == [name_map |-> <<>>, const_map |-> <<>>, n_name |-> 0, n_const |-> 0]

HasKey(map, key) == \E j \in 1..Len(map) : map[j][1] = key
Get(map, key) == map[CHOOSE j \in 1..Len(map) : map[j][1] = key][2]

\* _map_name: the placeholder of a name, and the canonicalizer afterwards
_map_name(canon, name) ==
    IF HasKey(canon.name_map, name)
    THEN [ph |-> Get(canon.name_map, name), canon |-> canon]
    ELSE [ph |-> "_N" \o ToString(canon.n_name),
          canon |-> [canon EXCEPT
                       !.name_map = Append(@, <<name, "_N" \o ToString(canon.n_name)>>),
                       !.n_name = @ + 1]]

\* _map_const: value is given by its repr, which is the key
_map_const(canon, key) ==
    IF HasKey(canon.const_map, key)
    THEN [ph |-> Get(canon.const_map, key), canon |-> canon]
    ELSE [ph |-> "_C" \o ToString(canon.n_const),
          canon |-> [canon EXCEPT
                       !.const_map = Append(@, <<key, "_C" \o ToString(canon.n_const)>>),
                       !.n_const = @ + 1]]

\* the attribute branch of visit_Attribute: key "attr::<attr>", prefix _A, the
\* counter of the names
MapAttr(canon, attr) ==
    LET attr_key == "attr::" \o attr IN
    IF HasKey(canon.name_map, attr_key)
    THEN [ph |-> Get(canon.name_map, attr_key), canon |-> canon]
    ELSE [ph |-> "_A" \o ToString(canon.n_name),
          canon |-> [canon EXCEPT
                       !.name_map = Append(@, <<attr_key, "_A" \o ToString(canon.n_name)>>),
                       !.n_name = @ + 1]]

\* repr of a str value (the placeholders hold no quote or backslash)
Repr(s) == "'" \o s \o "'"

\* a list field of a node
Field(node, field) ==
    CASE field = "kids" -> node.kids
      [] field = "body" -> node.body
      [] field = "handlers" -> node.handlers
      [] field = "orelse" -> node.orelse
      [] field = "finalbody" -> node.finalbody
      [] field = "deco" -> node.deco
      [] field = "returns" -> node.returns

\* node with one of its list fields replaced
SetField(node, field, list) ==
    CASE field = "kids" -> [node EXCEPT !.kids = list]
      [] field = "body" -> [node EXCEPT !.body = list]
      [] field = "handlers" -> [node EXCEPT !.handlers = list]
      [] field = "orelse" -> [node EXCEPT !.orelse = list]
      [] field = "finalbody" -> [node EXCEPT !.finalbody = list]
      [] field = "deco" -> [node EXCEPT !.deco = list]
      [] field = "returns" -> [node EXCEPT !.returns = list]

RECURSIVE visit(_, _)
RECURSIVE VisitList(_, _)

\* the visited node n put before the visited nodes t
Prepend(n, t) == [nodes |-> <<n>> \o t.nodes, canon |-> t.canon]

\* the first element visited as h, the rest visited after it
VisitRest(h, rest) == Prepend(h.node, VisitList(rest, h.canon))

\* NodeTransformer.generic_visit on a list field: visit each element in order
VisitList(nodes, canon) ==
    IF nodes = <<>> THEN [nodes |-> <<>>, canon |-> canon]
    ELSE VisitRest(visit(nodes[1], canon), Tail(nodes))

\* the visited list v put back into field f of the node
Revisited(acc, f, v) == [node |-> SetField(acc.node, f, v.nodes), canon |-> v.canon]

\* one field of the node visited; acc is [node, canon] so far
VisitField(acc, f) == Revisited(acc, f, VisitList(Field(acc.node, f), acc.canon))

\* the node-valued fields of a class, in _fields order
FieldsOf(type) ==
    CASE type = "Module" -> <<"body">>
      [] type \in {"If", "For", "While"} -> <<"kids", "body", "orelse">>
      [] type \in {"With", "ExceptHandler"} -> <<"kids", "body">>
      [] type = "Try" -> <<"body", "handlers", "orelse", "finalbody">>
      [] type = "FunctionDef" -> <<"kids", "body", "deco", "returns">>
      [] type = "ClassDef" -> <<"kids", "body", "deco">>
      [] type = "arg" -> <<"returns">>
      [] OTHER -> <<"kids">>

RECURSIVE VisitFields(_, _, _)
\* the fields from the k-th on
VisitFields(acc, fields, k) ==
    IF k > Len(fields) THEN acc
    ELSE VisitFields(VisitField(acc, fields[k]), fields, k + 1)

\* NodeTransformer.generic_visit: the fields in _fields order, the node itself
\* rewritten in place
generic_visit(node, canon) ==
    VisitFields([node |-> node, canon |-> canon], FieldsOf(node.type), 1)

\* the node of a visit result renamed to a placeholder m
Renamed(g, m) == [node |-> [g.node EXCEPT !.name = m.ph], canon |-> m.canon]

visit_Name(node, canon) ==
    Renamed([node |-> node, canon |-> canon], _map_name(canon, node.name))

\* ast.arg(arg=new_arg, annotation=None, type_comment=None)
visit_arg(node, canon) ==
    Renamed([node |-> [node EXCEPT !.returns = <<>>], canon |-> canon],
            _map_name(canon, node.name))

\* lines 54-60 on the node generic_visit returned
AsFn(g) ==
    [node |-> [g.node EXCEPT !.name = "_fn", !.deco = <<>>, !.returns = <<>>],
     canon |-> g.canon]

visit_FunctionDef(node, canon) == AsFn(generic_visit(node, canon))

\* lines 64-67 on the node generic_visit returned
AsCls(g) ==
    [node |-> [g.node EXCEPT !.name = "_cls", !.kids = <<>>, !.deco = <<>>],
     canon |-> g.canon]

visit_ClassDef(node, canon) == AsCls(generic_visit(node, canon))

\* lines 75-83 on the node generic_visit returned
AsAttr(g) == Renamed(g, MapAttr(g.canon, g.node.name))

visit_Attribute(node, canon) == AsAttr(generic_visit(node, canon))

\* the placeholder is a str, which ast.dump prints by its repr
Quoted(m) == [ph |-> Repr(m.ph), canon |-> m.canon]

visit_Constant(node, canon) ==
    Renamed([node |-> node, canon |-> canon], Quoted(_map_const(canon, node.name)))

\* NodeVisitor.visit: dispatch on the class name
visit(node, canon) ==
    CASE node.type = "Name" -> visit_Name(node, canon)
      [] node.type = "arg" -> visit_arg(node, canon)
      [] node.type = "FunctionDef" -> visit_FunctionDef(node, canon)
      [] node.type = "ClassDef" -> visit_ClassDef(node, canon)
      [] node.type = "Attribute" -> visit_Attribute(node, canon)
      [] node.type = "Constant" -> visit_Constant(node, canon)
      [] OTHER -> generic_visit(node, canon)

(***************************************************************************)
(* ast.dump(node, annotate_fields=False, include_attributes=False)         *)
(***************************************************************************)
RECURSIVE dump(_)
RECURSIVE DumpList(_)

DumpList(nodes) ==
    IF nodes = <<>> THEN ""
    ELSE IF Len(nodes) = 1 THEN dump(nodes[1])
    ELSE dump(nodes[1]) \o ", " \o DumpList(Tail(nodes))

dump(node) ==
    CASE node.type = "Module" -> "Module([" \o DumpList(node.body) \o "], [])"
      [] node.type = "Name" -> "Name('" \o node.name \o "', " \o node.ctx \o "())"
      [] node.type = "Constant" -> "Constant(" \o node.name \o ")"
      [] node.type = "Attribute" ->
            "Attribute(" \o dump(node.kids[1]) \o ", '" \o node.name \o "', "
                \o node.ctx \o "())"
      [] node.type = "Call" ->
            "Call(" \o dump(node.kids[1]) \o ", [" \o DumpList(Tail(node.kids)) \o "], [])"
      [] node.type = "arg" -> "arg('" \o node.name \o "')"
      [] node.type = "Expr" -> "Expr(" \o dump(node.kids[1]) \o ")"
      [] node.type = "Assign" ->
            "Assign([" \o DumpList(SubSeq(node.kids, 1, Len(node.kids) - 1)) \o "], "
                \o dump(node.kids[Len(node.kids)]) \o ")"
      [] node.type = "Return" -> "Return(" \o DumpList(node.kids) \o ")"
      [] node.type = "Pass" -> "Pass()"
      [] node.type = "If" ->
            "If(" \o dump(node.kids[1]) \o ", [" \o DumpList(node.body) \o "], ["
                \o DumpList(node.orelse) \o "])"
      [] node.type = "For" ->
            "For(" \o dump(node.kids[1]) \o ", " \o dump(node.kids[2]) \o ", ["
                \o DumpList(node.body) \o "], [" \o DumpList(node.orelse) \o "])"
      [] node.type = "While" ->
            "While(" \o dump(node.kids[1]) \o ", [" \o DumpList(node.body) \o "], ["
                \o DumpList(node.orelse) \o "])"
      [] node.type = "With" ->
            "With([" \o DumpList(node.kids) \o "], [" \o DumpList(node.body) \o "])"
      [] node.type = "withitem" -> "withitem(" \o DumpList(node.kids) \o ")"
      [] node.type = "Try" ->
            "Try([" \o DumpList(node.body) \o "], [" \o DumpList(node.handlers) \o "], ["
                \o DumpList(node.orelse) \o "], [" \o DumpList(node.finalbody) \o "])"
      [] node.type = "ExceptHandler" ->
            \* a field that is None is left out and the fields after it are named
            IF node.kids = <<>> THEN "ExceptHandler(body=[" \o DumpList(node.body) \o "])"
            ELSE IF node.name = ""
            THEN "ExceptHandler(" \o dump(node.kids[1]) \o ", body=["
                     \o DumpList(node.body) \o "])"
            ELSE "ExceptHandler(" \o dump(node.kids[1]) \o ", '" \o node.name \o "', ["
                     \o DumpList(node.body) \o "])"
      [] node.type = "FunctionDef" ->
            "FunctionDef('" \o node.name \o "', arguments([], [" \o DumpList(node.kids)
                \o "], kwonlyargs=[], kw_defaults=[], defaults=[]), ["
                \o DumpList(node.body) \o "], [" \o DumpList(node.deco) \o "]"
                \o (IF node.returns = <<>> THEN "" ELSE ", " \o dump(node.returns[1]))
                \o ")"
      [] node.type = "ClassDef" ->
            "ClassDef('" \o node.name \o "', [" \o DumpList(node.kids) \o "], [], ["
                \o DumpList(node.body) \o "], [" \o DumpList(node.deco) \o "])"

RECURSIVE _fix(_, _, _)
\* ast.fix_missing_locations, its inner _fix: a node that has no lineno
\* (end_lineno) takes its parent's, then hands its own to its children
_fix(node, lineno, end_lineno) ==
    LET has == HasLocation(node.type)
        ln == IF has /\ node.lineno # 0 THEN node.lineno ELSE lineno
        en == IF has /\ node.end_lineno # 0 THEN node.end_lineno ELSE end_lineno
    IN [node EXCEPT
          !.lineno = IF has THEN ln ELSE @,
          !.end_lineno = IF has THEN en ELSE @,
          !.kids = List([k \in 1..Len(node.kids) |-> _fix(node.kids[k], ln, en)]),
          !.body = List([k \in 1..Len(node.body) |-> _fix(node.body[k], ln, en)]),
          !.handlers = List([k \in 1..Len(node.handlers) |-> _fix(node.handlers[k], ln, en)]),
          !.orelse = List([k \in 1..Len(node.orelse) |-> _fix(node.orelse[k], ln, en)]),
          !.finalbody = List([k \in 1..Len(node.finalbody) |-> _fix(node.finalbody[k], ln, en)]),
          !.deco = List([k \in 1..Len(node.deco) |-> _fix(node.deco[k], ln, en)]),
          !.returns = List([k \in 1..Len(node.returns) |-> _fix(node.returns[k], ln, en)])]

fix_missing_locations(node) == _fix(node, 1, 1)

\* lines 115-120: the dump of module2, its hash, and the statements of
\* module2, which are the caller's statement objects
Dumped(module2, dumped, canon) ==
    [h |-> dumped, dumped |-> dumped, stmts |-> module2.body, canon |-> canon]

\* lines 111-116: module2 with its locations filled in, and its dump
Visited(visited, module2) == Dumped(module2, dump(module2), visited.canon)

\* lines 107-112 on the result of canon.visit(module1)
Canonical(visited) == Visited(visited, fix_missing_locations(visited.node))

\* canonical_block_dump: the hash and the dump of a window, and the window's
\* statements as the call leaves them (generic_visit and
\* fix_missing_locations write into the statement objects themselves, which
\* are the caller's)
canonical_block_dump(stmts) == Canonical(visit(Module(stmts), NewCanonicalizer))

(***************************************************************************)
(* Input trees.  Statements as the parser builds them from one-statement   *)
(* source lines; ln is the line the statement starts at.                   *)
(***************************************************************************)
Stmt(type, kids, ln) ==
    Node(type, "", "", AtAll(kids, ln), <<>>, <<>>, <<>>, <<>>, <<>>, <<>>, ln, ln)

\* a statement with bodies
Compound(type, name, kids, body, handlers, orelse, finalbody, ln, end) ==
    Node(type, name, "", AtAll(kids, ln), body, handlers, orelse, finalbody,
         <<>>, <<>>, ln, end)

ExprStmt(v, ln) == Stmt("Expr", <<Name(v, "Load")>>, ln)                 \* v
AssignStmt(t, r, ln) == Stmt("Assign", <<Name(t, "Store"), Constant(r)>>, ln)  \* t = r
CallStmt(o, m, r, ln) ==                                                 \* o.m(r)
    Stmt("Expr", <<Call(Attribute(Name(o, "Load"), m), <<Constant(r)>>)>>, ln)
ReturnStmt(v, ln) == Stmt("Return", <<Name(v, "Load")>>, ln)             \* return v
PassStmt(ln) == Stmt("Pass", <<>>, ln)                                   \* pass

\* if y:           (ln)
\*     x           (ln + 1)
\*     y           (ln + 2)
IfStmt(ln) ==
    Compound("If", "", <<Name("y", "Load")>>,
             <<ExprStmt("x", ln + 1), ExprStmt("y", ln + 2)>>, <<>>, <<>>, <<>>, ln, ln + 2)

\* @d              (ln)
\* def f(x) -> t:  (ln + 1)
\*     x.m(1)      (ln + 2)
\*     y           (ln + 3)
\*     x           (ln + 4)
DefStmt(ln) ==
    Node("FunctionDef", "f", "", <<At(Leaf("arg", "x", ""), ln + 1)>>,
         <<CallStmt("x", "m", "1", ln + 2), ExprStmt("y", ln + 3), ExprStmt("x", ln + 4)>>,
         <<>>, <<>>, <<>>, <<At(Name("d", "Load"), ln)>>, <<At(Name("t", "Load"), ln + 1)>>,
         ln + 1, ln + 4)

\* for x in y:     (ln)
\*     x           (ln + 1)
\*     y           (ln + 2)
\* else:           (ln + 3)
\*     y           (ln + 4)
\*     x           (ln + 5)
ForStmt(ln) ==
    Compound("For", "", <<Name("x", "Store"), Name("y", "Load")>>,
             <<ExprStmt("x", ln + 1), ExprStmt("y", ln + 2)>>, <<>>,
             <<ExprStmt("y", ln + 4), ExprStmt("x", ln + 5)>>, <<>>, ln, ln + 5)

\* while x:        (ln)
\*     y = 1       (ln + 1)
\*     x           (ln + 2)
WhileStmt(ln) ==
    Compound("While", "", <<Name("x", "Load")>>,
             <<AssignStmt("y", "1", ln + 1), ExprStmt("x", ln + 2)>>, <<>>, <<>>, <<>>, ln, ln + 2)

\* with x as y:    (ln)
\*     x           (ln + 1)
\*     y           (ln + 2)
WithStmt(ln) ==
    Compound("With", "", <<withitem(Name("x", "Load"), <<Name("y", "Store")>>)>>,
             <<ExprStmt("x", ln + 1), ExprStmt("y", ln + 2)>>, <<>>, <<>>, <<>>, ln, ln + 2)

\* try:            (ln)
\*     x           (ln + 1)
\*     y           (ln + 2)
\* except y:       (ln + 3)
\*     y           (ln + 4)
\*     x           (ln + 5)
\* finally:        (ln + 6)
\*     x           (ln + 7)
\*     x           (ln + 8)
TryStmt(ln) ==
    Compound("Try", "", <<>>,
             <<ExprStmt("x", ln + 1), ExprStmt("y", ln + 2)>>,
             <<Compound("ExceptHandler", "", <<Name("y", "Load")>>,
                        <<ExprStmt("y", ln + 4), ExprStmt("x", ln + 5)>>,
                        <<>>, <<>>, <<>>, ln + 3, ln + 5)>>,
             <<>>,
             <<ExprStmt("x", ln + 7), ExprStmt("x", ln + 8)>>, ln, ln + 8)

SimpleForms == {"x", "y"}
CompoundForms == {"if", "def", "for", "while", "with", "try"}
Forms == SimpleForms \cup CompoundForms

FormStmt(f, ln) ==
    CASE f = "x" -> ExprStmt("x", ln)
      [] f = "y" -> ExprStmt("y", ln)
      [] f = "if" -> IfStmt(ln)
      [] f = "def" -> DefStmt(ln)
      [] f = "for" -> ForStmt(ln)
      [] f = "while" -> WhileStmt(ln)
      [] f = "with" -> WithStmt(ln)
      [] f = "try" -> TryStmt(ln)

FormLines(f) ==
    CASE f \in {"if", "while", "with"} -> 3
      [] f = "def" -> 5
      [] f = "for" -> 6
      [] f = "try" -> 9
      [] OTHER -> 1

RECURSIVE ParseBody(_, _)
\* the statements of a source text whose lines are the forms fs, from line ln
ParseBody(fs, ln) ==
    IF fs = <<>> THEN <<>>
    ELSE <<FormStmt(fs[1], ln)>> \o ParseBody(Tail(fs), ln + FormLines(fs[1]))

\* the source texts: up to MaxStmts statements, up to MaxCompound of them
\* statements with bodies, and up to MaxLong simple statements (a body longer
\* than max_len)
Sources ==
    {src \in UNION {[1..n -> Forms] : n \in 1..MaxStmts} :
        Cardinality({k \in DOMAIN src : src[k] \in CompoundForms}) <= MaxCompound}
    \cup UNION {[1..n -> SimpleForms] : n \in 1..MaxLong}

(***************************************************************************)
(* collect_sequences.  A block is named by the path to the node that holds *)
(* it, a sequence of <<index, field>> steps from the module, and the field *)
(* of that node.                                                           *)
(***************************************************************************)
RECURSIVE Blocks(_, _)
RECURSIVE BlocksOfList(_, _, _, _)

\* BodyWalker.generic_visit over the nodes of one list field, in order
BlocksOfList(nodes, path, field, k) ==
    IF k > Len(nodes) THEN <<>>
    ELSE Blocks(nodes[k], Append(path, <<k, field>>))
             \o BlocksOfList(nodes, path, field, k + 1)

\* BodyWalker.visit(node): the bodies _walk_body is called on, in call order.
\* path leads to node.  The visit_ method of the node walks the node's own
\* bodies, then generic_visit goes through the fields in _fields order.
Blocks(node, path) ==
    LET own == CASE node.type \in {"Module", "FunctionDef", "With"} ->
                        <<<<path, "body">>>>
                 [] node.type \in {"If", "For", "While"} ->
                        <<<<path, "body">>, <<path, "orelse">>>>
                 [] node.type = "Try" ->
                        <<<<path, "body">>, <<path, "orelse">>, <<path, "finalbody">>>>
                            \o List([k \in 1..Len(node.handlers) |->
                                    <<Append(path, <<k, "handlers">>), "body">>])
                 [] OTHER -> <<>>
    IN own \o BlocksOfList(node.body, path, "body", 1)
           \o BlocksOfList(node.handlers, path, "handlers", 1)
           \o BlocksOfList(node.orelse, path, "orelse", 1)
           \o BlocksOfList(node.finalbody, path, "finalbody", 1)

RECURSIVE NodeAt(_, _)
\* the node a path leads to
NodeAt(node, path) ==
    IF path = <<>> THEN node
    ELSE NodeAt(Field(node, path[1][2])[path[1][1]], Tail(path))

\* the statement list a block names
BlockStmts(root, b) == Field(NodeAt(root, b[1]), b[2])

RECURSIVE WithBlock(_, _, _, _)
\* root with the statement list of block <<path, field>> replaced
WithBlock(node, path, field, stmts) ==
    IF path = <<>> THEN SetField(node, field, stmts)
    ELSE LET k == path[1][1]
             list == Field(node, path[1][2])
         IN SetField(node, path[1][2],
                     [list EXCEPT ![k] = WithBlock(@, Tail(path), field, stmts)])

\* sequences.setdefault(h, []).append(item)
SetDefaultAppend(seqs, h, item) ==
    IF \E k \in 1..Len(seqs) : seqs[k].h = h
    THEN List([k \in 1..Len(seqs) |->
            IF seqs[k].h = h THEN [seqs[k] EXCEPT !.occ = Append(@, item)] ELSE seqs[k]])
    ELSE Append(seqs, [h |-> h, occ |-> <<item>>])

\* Offsets with the last window of each length left out
OffsetsShort(n, len) == 0..(n - len - 1)

\* the offsets of the windows of one length in a body of n statements
Offsets(n, len) == 0..(n - len)

\* lines 183-188: the window recorded.  c is what canonical_block_dump
\* returned; start and end are read from the statements after the call.
Record(st, blocks, b, len, off, stmts, c) ==
    LET start == c.stmts[1].lineno
        last == c.stmts[len]
        end == IF last.end_lineno = 0 THEN last.lineno ELSE last.end_lineno
    IN [tree |-> WithBlock(st.tree, blocks[b][1], blocks[b][2],
                           SubSeq(stmts, 1, off) \o c.stmts
                               \o SubSeq(stmts, off + len + 1, Len(stmts))),
        sequences |-> SetDefaultAppend(st.sequences, c.h, <<start, end, c.dumped>>),
        walked |-> Append(st.walked, [blk |-> b, length |-> len, i |-> off, h |-> c.h])]

\* lines 176-182: the window at offset off of the statements stmts; a window
\* whose first statement has no lineno is passed over
Window(st, blocks, b, len, off, stmts) ==
    IF stmts[off + 1].lineno = 0 THEN st
    ELSE Record(st, blocks, b, len, off, stmts,
                canonical_block_dump(SubSeq(stmts, off + 1, off + len)))

\* the window of len statements at offset off of body b, as the tree holds
\* that body now
InBlocks(st, blocks, b, len, off) ==
    Window(st, blocks, b, len, off, BlockStmts(st.tree, blocks[b]))

\* _walk_body, one iteration of the inner loop: the window of len statements
\* at offset off of body b.  st is [tree, sequences, walked].
walk_window(st, b, len, off) == InBlocks(st, Blocks(st.tree, <<>>), b, len, off)

RECURSIVE WindowsOfBody(_, _, _, _)
\* the two loops of _walk_body (lines 173-175) on body b of n statements,
\* from length len and offset off on: the windows <<b, length, offset>> in the
\* order they are taken
WindowsOfBody(b, n, len, off) ==
    IF len < min_len THEN <<>>
    ELSE IF n < len \/ off \notin Offsets(n, len) THEN WindowsOfBody(b, n, len - 1, 0)
    ELSE <<<<b, len, off>>>> \o WindowsOfBody(b, n, len, off + 1)

RECURSIVE WindowsFrom(_, _, _)
\* BodyWalker from body b on: the windows of every body it walks, in order.
\* (A pass rewrites names and locations; the statement lists keep their
\* lengths, so the loop bounds are those of the tree passed in.)
WindowsFrom(root, blocks, b) ==
    IF b > Len(blocks) THEN <<>>
    ELSE WindowsOfBody(b, Len(BlockStmts(root, blocks[b])), max_len, 0)
             \o WindowsFrom(root, blocks, b + 1)

\* the windows ws taken one after the other, each on the tree the ones
\* before it left
WalkAll(root, blocks, ws) ==
    LET F[k \in 0..Len(ws)] ==
            IF k = 0 THEN [tree |-> root, sequences |-> <<>>, walked |-> <<>>]
            ELSE InBlocks(F[k - 1], blocks, ws[k][1], ws[k][2], ws[k][3])
    IN F[Len(ws)]

\* BodyWalker().visit(tree) over the bodies blocks
BodyWalker(root, blocks) == WalkAll(root, blocks, WindowsFrom(root, blocks, 1))

\* collect_sequences(root): the map returned, the caller's tree as the call
\* leaves it, and the windows recorded
collect_sequences(root) == BodyWalker(root, Blocks(root, <<>>))

CurBlocks == Blocks(tree, <<>>)
CurStmts == BlockStmts(tree, CurBlocks[blk])

CheckVarsUnchanged == UNCHANGED <<candidates, ci, selected, occupied_lines, results>>

\* _walk_body, one iteration of the inner loop: the window at offset i
WalkWindow ==
    /\ pc = "walk"
    /\ length >= min_len
    /\ Len(CurStmts) >= length
    /\ i \in Offsets(Len(CurStmts), length)
    /\ LET st == walk_window([tree |-> tree, sequences |-> sequences, walked |-> walked],
                             blk, length, i)
       IN /\ tree' = st.tree
          /\ sequences' = st.sequences
          /\ walked' = st.walked
    /\ i' = i + 1
    /\ UNCHANGED <<input, blk, length, pc>>
    /\ CheckVarsUnchanged

\* _walk_body, the outer loop: the next shorter length (n < length: continue,
\* or the offsets of this length are exhausted)
NextLength ==
    /\ pc = "walk"
    /\ length >= min_len
    /\ \/ Len(CurStmts) < length
       \/ i \notin Offsets(Len(CurStmts), length)
    /\ length' = length - 1
    /\ i' = 0
    /\ UNCHANGED <<tree, input, sequences, walked, blk, pc>>
    /\ CheckVarsUnchanged

\* _walk_body returns and BodyWalker calls it on the next body
NextBody ==
    /\ pc = "walk"
    /\ length < min_len
    /\ blk < Len(CurBlocks)
    /\ blk' = blk + 1
    /\ length' = max_len
    /\ i' = 0
    /\ UNCHANGED <<tree, input, sequences, walked, pc>>
    /\ CheckVarsUnchanged

\* BodyWalker().visit(tree) returns; collect_sequences returns sequences
WalkDone ==
    /\ pc = "walk"
    /\ length < min_len
    /\ blk = Len(CurBlocks)
    /\ pc' = "collected"
    /\ UNCHANGED <<tree, input, sequences, walked, blk, length, i>>
    /\ CheckVarsUnchanged

\* the state collect_sequences starts in on the tree root
Start(root) ==
    /\ tree = root
    /\ input = root
    /\ sequences = <<>>
    /\ walked = <<>>
    /\ blk = 1
    /\ length = max_len
    /\ i = 0
    /\ pc = "walk"
    /\ candidates = <<>>
    /\ ci = 0
    /\ selected = <<>>
    /\ occupied_lines = {}
    /\ results = <<>>

Init == \E src \in Sources : Start(Module(ParseBody(src, 1)))

Next == WalkWindow \/ NextLength \/ NextBody \/ WalkDone

Spec == Init /\ [][Next]_vars

(***************************************************************************)
(* check: the triviality filter.                                           *)
(***************************************************************************)
\* sub in str
Contains(str, sub) ==
    \E p \in 1..(Len(str) - Len(sub) + 1) : SubSeq(str, p, p + Len(sub) - 1) = sub

\* the positions of str at which sub occurs
Occurrences(str, sub) ==
    {p \in 1..(Len(str) - Len(sub) + 1) : SubSeq(str, p, p + Len(sub) - 1) = sub}

RECURSIVE CountFrom(_, _, _)
\* str.count(sub): the occurrences found scanning from position p, each scan
\* resuming after the occurrence found (occurrences do not overlap)
CountFrom(found, sublen, p) ==
    LET rest == {q \in found : q >= p}
    IN IF rest = {} THEN 0
       ELSE 1 + CountFrom(found, sublen, (CHOOSE q \in rest : \A r \in rest : q <= r) + sublen)

Count(str, sub) == CountFrom(Occurrences(str, sub), Len(sub), 1)

\* tuple order of two pairs of integers
TupleLess(x, y) == x[1] < y[1] \/ (x[1] = y[1] /\ x[2] < y[2])

\* position k put into the sorted positions before the first one whose key is
\* greater than its own
InsertSorted(k, order, keys) ==
    LET later == {j \in 1..Len(order) : TupleLess(keys[k], keys[order[j]])}
        at == IF later = {} THEN Len(order) + 1
              ELSE CHOOSE j \in later : \A m \in later : j <= m
    IN SubSeq(order, 1, at - 1) \o <<k>> \o SubSeq(order, at, Len(order))

\* list.sort / sorted by keys (pairs of integers): stable, elements of equal
\* keys keep their order
StableSort(seq, keys) ==
    LET F[k \in 0..Len(seq)] ==
            IF k = 0 THEN <<>> ELSE InsertSorted(k, F[k - 1], keys)
    IN List([j \in 1..Len(seq) |-> seq[F[Len(seq)][j]]])

\* SpanIsTrivial testing for a single line
SpanIsTrivialSingle(start, end) == end - start = 0

\* the test on one match of the loop of _is_trivial_by_line_ranges
SpanIsTrivial(start, end) == end - start = 1

RECURSIVE TrivialFrom(_, _)
\* the loop of _is_trivial_by_line_ranges from index k of the sorted matches
TrivialFrom(matches, k) ==
    IF k > Len(matches) THEN FALSE
    ELSE LET start == matches[k][1]
             end == matches[k][2]
         IN IF SpanIsTrivial(start, end) THEN TRUE
            ELSE IF k + 1 <= Len(matches) /\ matches[k + 1][1] \in start..end THEN TRUE
            ELSE TrivialFrom(matches, k + 1)

_is_trivial_by_line_ranges(matches) ==
    IF Len(matches) < 2 THEN FALSE
    ELSE TrivialFrom(StableSort(matches, matches), 1)

\* utils.any_in(*subs, eq=dumped): some sub is in dumped
any_in(subs, dumped) == \E sub \in subs : Contains(dumped, sub)

_is_argparse_like(dumped) ==
    /\ Count(dumped, "Call(Attribute(Name(") >= 2
    /\ any_in({"keyword(", "Constant("}, dumped)

is_trivial_dump(dumped, ranges) ==
    IF Len(dumped) < 50 THEN TRUE
    ELSE IF Contains(dumped, "Return(") THEN TRUE
    ELSE IF _is_argparse_like(dumped) THEN TRUE
    ELSE IF _is_trivial_by_line_ranges(ranges) THEN TRUE
    ELSE FALSE

(***************************************************************************)
(* check: the candidates.                                                  *)
(***************************************************************************)
RECURSIVE Seen(_)
\* the dict seen after the loop over occ: <<(start, end), dumped>> items in
\* insertion order, a repeated key keeping its place and taking the new value
Seen(occ) ==
    IF occ = <<>> THEN <<>>
    ELSE LET before == Seen(SubSeq(occ, 1, Len(occ) - 1))
             last == occ[Len(occ)]
             key == <<last[1], last[2]>>
         IN IF HasKey(before, key)
            THEN List([k \in 1..Len(before) |->
                    IF before[k][1] = key THEN <<key, last[3]>> ELSE before[k]])
            ELSE Append(before, <<key, last[3]>>)

OccUnique(occ) ==
    LET seen == Seen(occ)
    IN List([k \in 1..Len(seen) |-> <<seen[k][1][1], seen[k][1][2], seen[k][2]>>])

LineRanges(occ_unique) == List([k \in 1..Len(occ_unique) |-> <<occ_unique[k][1], occ_unique[k][2]>>])

\* TooFew with a threshold of 2
TooFewTwo(occ_unique) == Len(occ_unique) < 2

\* if len(occ_unique) < 3: continue
TooFew(occ_unique) == Len(occ_unique) < min_occurrences

Min(S) == CHOOSE x \in S : \A y \in S : x <= y
Max(S) == CHOOSE x \in S : \A y \in S : x >= y

\* "Length in lines (used for sorting preference)"
CandLength(occ_unique) ==
    LET first_start == Min({occ_unique[k][1] : k \in 1..Len(occ_unique)})
        first_end == Max({occ_unique[k][2] : k \in 1..Len(occ_unique)})
    IN first_end - first_start + 1

RECURSIVE CandidatesOf(_)
\* the candidates list after the loop over seqs.items()
CandidatesOf(seqs) ==
    IF seqs = <<>> THEN <<>>
    ELSE LET before == CandidatesOf(SubSeq(seqs, 1, Len(seqs) - 1))
             g == seqs[Len(seqs)]
             occ_unique == OccUnique(g.occ)
         IN IF TooFew(occ_unique) THEN before
            ELSE IF is_trivial_dump(occ_unique[1][3], LineRanges(occ_unique)) THEN before
            ELSE Append(before, [hash |-> g.h, occurrences |-> occ_unique,
                                 count |-> Len(occ_unique),
                                 length |-> CandLength(occ_unique),
                                 sample_dump |-> occ_unique[1][3]])

\* sort(key = (count, length), reverse = True): greater keys first, equal keys
\* in their order
RankKey(c) == <<0 - c.count, 0 - c.length>>

(***************************************************************************)
(* check: the greedy selection and the results.                            *)
(***************************************************************************)
\* range_overlaps_with_occupied looking at the first line only
range_overlaps_first_line(occupied, start, end) == start \in occupied

range_overlaps_with_occupied(occupied, start, end) ==
    \E ln \in start..end : ln \in occupied

RECURSIVE SortedByStart(_)
\* the lists sorted(ranges, key = start) can return for a set of ranges: the
\* sort is stable and looks at the start only, so ranges with one start stay
\* in the order the set is iterated in, which the language leaves open
SortedByStart(ranges) ==
    IF ranges = {} THEN {<<>>}
    ELSE LET first == {r \in ranges : \A q \in ranges : r[1] <= q[1]}
         IN UNION {{<<r>> \o rest : rest \in SortedByStart(ranges \ {r})} : r \in first}

\* occs = sorted({(s, e) for s, e, d in cand["occurrences"]}, key = start):
\* every list it can be
Occs(cand) ==
    SortedByStart({<<cand.occurrences[j][1], cand.occurrences[j][2]>> :
                      j \in 1..Len(cand.occurrences)})

NonOverlappingOccs(occs, occupied) ==
    LET Free(r) == ~range_overlaps_with_occupied(occupied, r[1], r[2])
    IN SelectSeq(occs, Free)

\* Selectable with one free occurrence
SelectableOne(non_overlapping_occs) == Len(non_overlapping_occs) >= 1

\* if len(non_overlapping_occs) < 2: continue
Selectable(non_overlapping_occs) == Len(non_overlapping_occs) >= 2

\* LinesOf claiming the lines of the primary occurrence only
LinesOfPrimary(ranges) == ranges[1][1]..ranges[1][2]

\* the lines of the selected occurrences
LinesOf(ranges) == UNION {ranges[k][1]..ranges[k][2] : k \in 1..Len(ranges)}

limit == 8

RECURSIVE ReprRanges(_)
ReprRanges(ranges) ==
    IF ranges = <<>> THEN ""
    ELSE "(" \o ToString(ranges[1][1]) \o ", " \o ToString(ranges[1][2]) \o ")"
         \o (IF Len(ranges) > 1 THEN ", " ELSE "") \o ReprRanges(Tail(ranges))

Message(sel) ==
    LET matches == sel.matches
        display_matches == IF Len(matches) <= limit THEN matches
                           ELSE SubSeq(matches, 1, limit)
    IN "repeated block detected (" \o ToString(sel.count) \o " occurrences). Consider "
       \o "extracting a function for the block at lines [" \o ReprRanges(display_matches)
       \o "]"
       \o (IF Len(matches) > limit
           THEN " (and " \o ToString(Len(matches) - limit) \o " more occurrences)"
           ELSE "")

ResultsOf(sel) ==
    List([k \in 1..Len(sel) |->
        [file |-> "file", line |-> sel[k].primary[1], col |-> 1, code |-> "Z202",
         msg |-> Message(sel[k])]])

WalkVarsUnchanged == UNCHANGED <<tree, input, sequences, walked, blk, length, i>>

\* check, from the call of collect_sequences to the sort of the candidates
BuildCandidates ==
    /\ pc = "collected"
    /\ LET cands == StableSort(CandidatesOf(sequences),
                                [j \in 1..Len(CandidatesOf(sequences)) |->
                                    RankKey(CandidatesOf(sequences)[j])])
       IN /\ candidates' = cands
          /\ pc' = IF cands = <<>> THEN "done" ELSE "select"
    /\ ci' = 1
    /\ UNCHANGED <<selected, occupied_lines, results>>
    /\ WalkVarsUnchanged

\* the selection loop, a candidate with fewer than 2 free occurrences
SelectSkip ==
    /\ pc = "select"
    /\ ci <= Len(candidates)
    /\ \E occs \in Occs(candidates[ci]) :
          ~Selectable(NonOverlappingOccs(occs, occupied_lines))
    /\ ci' = ci + 1
    /\ UNCHANGED <<candidates, selected, occupied_lines, results, pc>>
    /\ WalkVarsUnchanged

\* the selection loop, a candidate that is selected
SelectAccept ==
    /\ pc = "select"
    /\ ci <= Len(candidates)
    /\ \E occs \in Occs(candidates[ci]) :
          \E non_overlapping_occs \in {NonOverlappingOccs(occs, occupied_lines)} :
             /\ Selectable(non_overlapping_occs)
             /\ occupied_lines' = occupied_lines \cup LinesOf(non_overlapping_occs)
             /\ selected' = Append(selected,
                   [hash |-> candidates[ci].hash, primary |-> non_overlapping_occs[1],
                    matches |-> non_overlapping_occs,
                    count |-> Len(non_overlapping_occs),
                    length |-> candidates[ci].length])
    /\ ci' = ci + 1
    /\ UNCHANGED <<candidates, results, pc>>
    /\ WalkVarsUnchanged

\* the results are built from the selected candidates and returned
Report ==
    /\ pc = "select"
    /\ ci > Len(candidates)
    /\ results' = ResultsOf(selected)
    /\ pc' = "done"
    /\ UNCHANGED <<candidates, ci, selected, occupied_lines>>
    /\ WalkVarsUnchanged

(***************************************************************************)
(* check on trees with repeated blocks.  A pattern is a two-statement      *)
(* window; its occurrences lie at a fixed stride: count ranges of span     *)
(* lines, the first at line start, stride lines apart (stride 0: the same  *)
(* range again).  The module body is one try statement: the first         *)
(* occurrence is the body of the try, every further one the body of an     *)
(* except clause of its own, so that every window of the tree is one       *)
(* occurrence.  The line numbers are those of the layout.                  *)
(***************************************************************************)
MaxLine == 11        \* last line of the source
MaxOcc == 4          \* occurrences of one pattern
MaxStart == 2        \* first line of a pattern's first occurrence
MaxSpan == 3         \* lines of one occurrence

SampleWindows ==
    <<  <<AssignStmt("x", "1", 1), AssignStmt("y", "2", 2)>>,       \* x = 1; y = 2
        <<ExprStmt("x", 1), ExprStmt("y", 2)>>,                     \* x; y
        <<PassStmt(1), PassStmt(2)>>,                               \* pass; pass
        <<AssignStmt("x", "1", 1), ReturnStmt("x", 2)>>,            \* x = 1; return x
        <<CallStmt("p", "add", "1", 1), CallStmt("p", "add", "2", 2)>> >>

SampleDumps == [k \in 1..Len(SampleWindows) |-> canonical_block_dump(SampleWindows[k]).dumped]

Layout(start, span, stride, count) ==
    List([j \in 1..count |-> <<start + (j - 1) * stride, start + (j - 1) * stride + span - 1>>])

\* the layouts of count occurrences or more
Layouts(count) ==
    {Layout(l[1], l[2], l[3], l[4]) :
        l \in {m \in (1..MaxStart) \X (1..MaxSpan) \X (0..MaxLine) \X (count..MaxOcc) :
                  m[1] + (m[4] - 1) * m[3] + m[2] - 1 <= MaxLine}}

\* the statement moved to lines ln..end
Place(stmt, ln, end) == [At(stmt, ln) EXCEPT !.end_lineno = end]

\* sample window k laid over the lines r[1]..r[2]: the first statement on
\* the first line, the second on the lines after it (on the same line when
\* the range is one line)
PlaceWindow(k, r) ==
    <<Place(SampleWindows[k][1], r[1], r[1]),
      Place(SampleWindows[k][2], IF r[2] > r[1] THEN r[1] + 1 ELSE r[1], r[2])>>

\* the occurrences <<sample, range>> of a pattern
Group(k, layout) == List([j \in 1..Len(layout) |-> <<k, layout[j]>>])

\* except c: <window>, one handler for each occurrence
Excepts(occs) ==
    List([j \in 1..Len(occs) |->
        Compound("ExceptHandler", "", <<Name("c", "Load")>>,
                 PlaceWindow(occs[j][1], occs[j][2]), <<>>, <<>>, <<>>,
                 occs[j][2][1], occs[j][2][2])])

\* the windows of zero or one occurrence
Windows(occs) == IF occs = <<>> THEN <<>> ELSE PlaceWindow(occs[1][1], occs[1][2])

\* try: <first> / except c: <excepts[1]> / ... / else: <orelse> / finally: <finalbody>
TryOver(first, excepts, orelse, finalbody) ==
    <<Compound("Try", "", <<>>,
               Windows(first), Excepts(excepts), Windows(orelse), Windows(finalbody),
               first[1][2][1],
               Max({o[2][2] : o \in {(first \o excepts \o orelse \o finalbody)[j] :
                                        j \in 1..(Len(first) + Len(excepts) + Len(orelse)
                                                     + Len(finalbody))}}))>>

\* s[:-1] and s[-1:]
Front(s) == IF s = <<>> THEN <<>> ELSE SubSeq(s, 1, Len(s) - 1)
Last(s) == IF s = <<>> THEN <<>> ELSE <<s[Len(s)]>>

\* the occurrences of pattern a, then those of pattern b (there may be none),
\* in the clauses of one try statement.  apart: the last occurrence of a is
\* the else clause and the last one of b the finally clause, which are walked
\* before the except clauses (lines 159-163), so that the occurrences of a
\* pattern are recorded out of line order
TreeOf(a, b, apart) ==
    IF apart
    THEN TryOver(SubSeq(a, 1, 1), Tail(Front(a)) \o Front(b), Last(a), Last(b))
    ELSE TryOver(SubSeq(a, 1, 1), Tail(a) \o b, <<>>, <<>>)

\* the samples that the filter on dumps lets through, wherever they lie
Untrivial == {k \in 1..Len(SampleWindows) : ~is_trivial_dump(SampleDumps[k], <<>>)}

\* a tree with one pattern, any number of times, or with two patterns that
\* pass the filter on dumps, each often enough to be kept (a pattern with
\* fewer occurrences or a trivial dump is dropped before the ranking, whatever
\* else the tree holds; which of the two patterns comes first makes no
\* difference to check, which reads a dump only in the filter)
InitCheck ==
    \/ \E d \in 1..Len(SampleWindows), la \in Layouts(1), apart \in BOOLEAN :
          /\ apart => Len(la) > 1
          /\ Start(Module(TreeOf(Group(d, la), <<>>, apart)))
    \/ \E d \in Untrivial, e \in Untrivial, la \in Layouts(min_occurrences),
           lb \in Layouts(min_occurrences), apart \in BOOLEAN :
          /\ d < e
          /\ Start(Module(TreeOf(Group(d, la), Group(e, lb), apart)))

\* check, line 242: seqs = collect_sequences(tree)
Collect ==
    /\ pc = "walk"
    /\ \E st \in {collect_sequences(tree)} :
          /\ tree' = st.tree
          /\ sequences' = st.sequences
          /\ walked' = st.walked
          /\ blk' = Len(Blocks(st.tree, <<>>))
    /\ length' = min_len - 1
    /\ i' = 0
    /\ pc' = "collected"
    /\ UNCHANGED input
    /\ CheckVarsUnchanged

NextCheck == Collect \/ BuildCandidates \/ SelectSkip \/ SelectAccept \/ Report

SpecCheck == InitCheck /\ [][NextCheck]_vars

(***************************************************************************)
(* Properties of the canonicalization passes of a run.                     *)
(***************************************************************************)
RECURSIVE Leaves(_, _)
\* The identifier-bearing leaves under the nodes, in visit order, as
\* <<namespace, value>>.  With dropped = FALSE the fields a pass deletes
\* (decorators, returns, base classes) are left out, so that the leaves of a
\* window before and after a pass line up.
Leaves(nodes, dropped) ==
    IF nodes = <<>> THEN <<>>
    ELSE LET n == nodes[1]
             keepKids == dropped \/ n.type # "ClassDef"
             own == CASE n.type \in {"Name", "arg"} -> <<<<"name", n.name>>>>
                      [] n.type = "Constant" -> <<<<"const", n.name>>>>
                      [] OTHER -> <<>>
             attr == IF n.type = "Attribute" THEN <<<<"attr", n.name>>>> ELSE <<>>
         IN own \o (IF keepKids THEN Leaves(n.kids, dropped) ELSE <<>>) \o attr
                \o Leaves(n.body, dropped) \o Leaves(n.handlers, dropped)
                \o Leaves(n.orelse, dropped) \o Leaves(n.finalbody, dropped)
                \o (IF dropped THEN Leaves(n.deco, dropped) \o Leaves(n.returns, dropped)
                    ELSE <<>>)
                \o Leaves(Tail(nodes), dropped)

RECURSIVE Erase(_)
\* the nodes with every leaf value and every line number blanked: the shape
Erase(nodes) ==
    [k \in 1..Len(nodes) |->
        LET n == nodes[k] IN
        [n EXCEPT !.name = IF n.type \in {"Name", "arg", "Constant", "Attribute"}
                           THEN "" ELSE @,
                  !.kids = Erase(@), !.body = Erase(@), !.handlers = Erase(@),
                  !.orelse = Erase(@), !.finalbody = Erase(@),
                  !.deco = Erase(@), !.returns = Erase(@),
                  !.lineno = 0, !.end_lineno = 0]]

\* leaves a and b repeat in the same pattern: equal in a where equal in b
SamePattern(a, b) ==
    /\ Len(a) = Len(b)
    /\ \A p, q \in 1..Len(a) :
          a[p][1] = a[q][1] => ((a[p][2] = a[q][2]) <=> (b[p][2] = b[q][2]))

\* two statement lists differ only by a consistent renaming of their names,
\* parameters, attributes and literal values
SameUpToRenaming(a, b) ==
    /\ Erase(a) = Erase(b)
    /\ SamePattern(Leaves(a, TRUE), Leaves(b, TRUE))

\* the statements of a recorded window in a given tree
WindowIn(root, w) ==
    SubSeq(BlockStmts(root, Blocks(root, <<>>)[w.blk]), w.i + 1, w.i + w.length)

\* C2: any two windows recorded in a run that differ only by a consistent
\* renaming of names, parameters, attributes and literals (as the caller wrote
\* them) were given the same hash.
C2_RenamingInvariance ==
    \A a, b \in 1..Len(walked) :
        SameUpToRenaming(WindowIn(input, walked[a]), WindowIn(input, walked[b]))
            => walked[a].h = walked[b].h

\* C3: in the canonical form of the window recorded last, two leaves of one
\* namespace carry the same placeholder exactly when the caller's tree had
\* equal values at those two leaves.
C3_PlaceholderFaithful ==
    walked # <<>> =>
        SamePattern(Leaves(WindowIn(input, walked[Len(walked)]), FALSE),
                    Leaves(WindowIn(tree, walked[Len(walked)]), FALSE))

\* C8: the caller's tree is as it was passed in, after every canonicalization.
C8_InputUnchanged == tree = input

\* the windows (block, length, offset) of the caller's tree
InputWindows ==
    LET bs == Blocks(input, <<>>) IN
    UNION {LET n == Len(BlockStmts(input, bs[b])) IN
           {w \in {b} \X (min_len..max_len) \X (0..n) : w[2] + w[3] <= n}
           : b \in 1..Len(bs)}

\* first line of the first statement and last line of the last one
WindowLines(w) ==
    LET stmts == BlockStmts(input, Blocks(input, <<>>)[w[1]])
    IN <<stmts[w[3] + 1].lineno, stmts[w[3] + w[2]].end_lineno>>

\* the recorded triples, as <<group, position>>
Recorded ==
    UNION {{<<k, j>> : j \in 1..Len(sequences[k].occ)} : k \in 1..Len(sequences)}

RecordedLines(g) == <<sequences[g[1]].occ[g[2]][1], sequences[g[1]].occ[g[2]][2]>>

\* C10: when collect_sequences returns, every body of n statements has, for
\* each length L in min_len..max_len, exactly its n-L+1 windows recorded (none
\* when L > n), each as (first line, last line, dump) under the hash of its
\* dump, overlapping windows each on their own; and throughout, the windows
\* of a longer length of a body are recorded before its shorter ones.
C10_WindowEnumeration ==
    /\ \A k \in 1..Len(sequences) :
          /\ \A j \in 1..Len(sequences) : sequences[j].h = sequences[k].h => j = k
          /\ \A j \in 1..Len(sequences[k].occ) :
                sequences[k].occ[j][3] = sequences[k].h
    /\ \A a, b \in 1..Len(walked) :
          (walked[a].blk = walked[b].blk /\ walked[a].length > walked[b].length) => a < b
    /\ pc = "collected" =>
          LET ws == InputWindows
              rs == Recorded
              wl == [w \in ws |-> WindowLines(w)]
              rl == [g \in rs |-> RecordedLines(g)]
          IN \A se \in {wl[w] : w \in ws} \cup {rl[g] : g \in rs} :
                Cardinality({w \in ws : wl[w] = se}) = Cardinality({g \in rs : rl[g] = se})

\* a run over a body longer than max_len: no window holds the whole body, the
\* windows of max_len statements at offsets 0 and 1 and the last window of
\* min_len statements are recorded
C10_Witness ==
    /\ pc = "collected"
    /\ Len(input.body) > max_len
    /\ \A a \in 1..Len(walked) : walked[a].length <= max_len
    /\ \E a, b, c \in 1..Len(walked) :
          /\ walked[a].blk = 1 /\ walked[a].length = max_len /\ walked[a].i = 0
          /\ walked[b].blk = 1 /\ walked[b].length = max_len /\ walked[b].i = 1
          /\ walked[c].blk = 1 /\ walked[c].length = min_len
          /\ walked[c].i = Len(input.body) - min_len

(***************************************************************************)
(* Properties of check.                                                    *)
(***************************************************************************)
\* the lines of one (start, end) range
Lines(r) == r[1]..r[2]

\* the distinct (start, end) of the occurrences recorded under a hash
DistinctRanges(g) == {<<g.occ[j][1], g.occ[j][2]>> : j \in 1..Len(g.occ)}

\* the accepted occurrences, as <<selection, position>>
Accepted ==
    UNION {{<<k, j>> : j \in 1..Len(selected[k].matches)} : k \in 1..Len(selected)}

\* C1: no two accepted occurrences, of one reported group or of two, share a
\* source line, and occupied_lines is exactly the union of their lines, after
\* every step of the selection loop.
C1_NonOverlap ==
    /\ \A a, b \in Accepted :
          a # b => Lines(selected[a[1]].matches[a[2]])
                       \cap Lines(selected[b[1]].matches[b[2]]) = {}
    /\ occupied_lines = UNION {Lines(selected[a[1]].matches[a[2]]) : a \in Accepted}

\* two groups reported, the second after losing an occurrence to the first
C1_Witness ==
    /\ pc = "done"
    /\ Len(selected) = 2
    /\ selected[2].count < candidates[2].count
    /\ Len(results) = 2

\* the triviality rule of the specification on sorted ranges r: a single-line
\* occurrence, or a start within the range of the occurrence before
SingleLineOrAdjacent(r) ==
    \/ \E k \in 1..Len(r) : r[k][1] = r[k][2]
    \/ \E k \in 1..(Len(r) - 1) : r[k + 1][1] \in Lines(r[k])

\* the rule with "exactly two lines" in place of "a single line"
TwoLineOrAdjacent(r) ==
    \/ \E k \in 1..Len(r) : r[k][2] = r[k][1] + 1
    \/ \E k \in 1..(Len(r) - 1) : r[k + 1][1] \in Lines(r[k])

\* the distinct ranges of a group, sorted as sorted() sorts them
SortedRanges(g) ==
    StableSort(LineRanges(OccUnique(g.occ)), LineRanges(OccUnique(g.occ)))

IsCandidate(h) == \E c \in 1..Len(candidates) : candidates[c].hash = h

\* the groups the triviality filter is asked about: 3 or more distinct ranges
Filtered == {k \in 1..Len(sequences) : Cardinality(DistinctRanges(sequences[k])) >= 3}

\* C4 as claimed: a group with a single-line occurrence, or with an
\* occurrence starting within the one before it, is rejected as trivially
\* sequential (three consecutive one-line occurrences among them).
C4_AdjacencySuppression ==
    \A k \in Filtered :
        (pc # "collected" /\ SingleLineOrAdjacent(SortedRanges(sequences[k])))
            => ~IsCandidate(sequences[k].h)

\* C4 as amended: a group with an occurrence of exactly two lines (end =
\* start + 1), or with an occurrence starting within the one before it, is
\* rejected as trivially sequential; single-line occurrences do not reject,
\* and [(10,10),(11,11),(12,12)] is not rejected.
C4_TwoLineSuppression ==
    /\ ~_is_trivial_by_line_ranges(<<<<10, 10>>, <<11, 11>>, <<12, 12>>>>)
    /\ \A k \in Filtered :
          TwoLineOrAdjacent(SortedRanges(sequences[k])) =>
              /\ _is_trivial_by_line_ranges(LineRanges(sequences[k].occ))
              /\ pc # "collected" => ~IsCandidate(sequences[k].h)

\* a pattern of three or more two-line occurrences, far apart, whose dump is
\* not trivial, has been dropped, while a pattern of single-line occurrences
\* is a candidate
C4_Witness ==
    /\ pc = "select"
    /\ Len(sequences) = 2
    /\ sequences[1].h = SampleDumps[1]
    /\ 1 \in Filtered
    /\ \A j \in 1..Len(sequences[1].occ) : sequences[1].occ[j][2] = sequences[1].occ[j][1] + 1
    /\ \A j \in 1..(Len(sequences[1].occ) - 1) :
          sequences[1].occ[j + 1][1] > sequences[1].occ[j][2]
    /\ ~IsCandidate(sequences[1].h)
    /\ IsCandidate(sequences[2].h)
    /\ \A j \in 1..Len(sequences[2].occ) : sequences[2].occ[j][2] = sequences[2].occ[j][1]

GroupOf(h) == sequences[CHOOSE k \in 1..Len(sequences) : sequences[k].h = h]

\* C5: every diagnostic stems from a hash group with at least 3 distinct
\* (start, end) occurrences; a shape with fewer never produces one.
C5_MinimumRepetition ==
    /\ \A c \in 1..Len(candidates) :
          Cardinality(DistinctRanges(GroupOf(candidates[c].hash))) >= 3
    /\ \A k \in 1..Len(selected) :
          /\ IsCandidate(selected[k].hash)
          /\ Cardinality(DistinctRanges(GroupOf(selected[k].hash))) >= 3
    /\ Len(results) <= Len(selected)
    /\ \A k \in 1..Len(results) : results[k].line = selected[k].primary[1]
    /\ pc = "done" => Len(results) = Len(selected)

\* a diagnostic was produced while a shape recorded three times or more at
\* fewer than 3 distinct places, with a dump that is not trivial, produced none
C5_Witness ==
    /\ pc = "done"
    /\ Len(results) = 1
    /\ \E k \in 1..Len(sequences) :
          /\ Len(sequences[k].occ) >= 3
          /\ Cardinality(DistinctRanges(sequences[k])) < 3
          /\ ~is_trivial_dump(sequences[k].h, <<>>)
          /\ \A j \in 1..Len(selected) : selected[j].hash # sequences[k].h

\* the pattern of a group occurs at 3 or more distinct places and passes the
\* triviality filter
Reportable(g) ==
    /\ Cardinality(DistinctRanges(g)) >= 3
    /\ ~is_trivial_dump(g.occ[1][3], SortedRanges(g))

Reports(h) == {k \in 1..Len(results) : selected[k].hash = h}

\* C6 as claimed: every pattern at 3 or more distinct places that passes the
\* triviality filter yields one diagnostic, whatever the other groups.
C6_EveryCandidateReported ==
    pc = "done" =>
        \A k \in 1..Len(sequences) :
            Reportable(sequences[k]) => Cardinality(Reports(sequences[k].h)) = 1

\* the lines of the occurrences accepted for the candidates processed before
\* candidate c
ClaimedBefore(c) ==
    UNION {Lines(selected[a[1]].matches[a[2]]) :
             a \in {b \in Accepted :
                      \E e \in 1..(c - 1) : candidates[e].hash = selected[b[1]].hash}}

FreeOf(c) ==
    {r \in DistinctRanges(GroupOf(candidates[c].hash)) : Lines(r) \cap ClaimedBefore(c) = {}}

\* C6 as amended: the candidates are exactly the patterns at 3 or more
\* distinct places that pass the triviality filter, and such a pattern yields
\* one diagnostic if at least 2 of its occurrences share no line with the
\* occurrences accepted for the candidates processed before it, and none
\* otherwise.
C6_ReportedUnlessClaimed ==
    pc = "done" =>
        /\ \A k \in 1..Len(sequences) :
              Reportable(sequences[k]) <=> IsCandidate(sequences[k].h)
        /\ \A c \in 1..Len(candidates) :
              Cardinality(Reports(candidates[c].hash))
                  = IF Cardinality(FreeOf(c)) >= 2 THEN 1 ELSE 0

\* two patterns passed the filter; one is reported, the other lost all but
\* one of its occurrences and is not
C6_Witness ==
    /\ pc = "done"
    /\ Len(candidates) = 2
    /\ Len(results) = 1
    /\ selected[1].hash = candidates[1].hash
    /\ Cardinality(FreeOf(2)) = 1

\* every occurrence of candidate a has more lines than every one of b
LongerOccurrences(a, b) ==
    \A j \in 1..Len(a.occurrences), m \in 1..Len(b.occurrences) :
        a.occurrences[j][2] - a.occurrences[j][1] > b.occurrences[m][2] - b.occurrences[m][1]

CandLines(c) == UNION {Lines(<<c.occurrences[j][1], c.occurrences[j][2]>>) :
                         j \in 1..Len(c.occurrences)}

\* C7: of two candidates with the same occurrence count whose occurrences
\* cover common lines, the one whose occurrences are longer is processed
\* first and no contested line goes to the other.
C7_LongerWindowPriority ==
    pc # "collected" =>
        \A a, b \in 1..Len(candidates) :
            (/\ candidates[a].count = candidates[b].count
             /\ CandLines(candidates[a]) \cap CandLines(candidates[b]) # {}
             /\ LongerOccurrences(candidates[a], candidates[b]))
            => /\ a < b
               /\ \A k \in 1..Len(selected) :
                     selected[k].hash = candidates[b].hash
                         => LinesOf(selected[k].matches) \cap CandLines(candidates[a]) = {}

\* the occurrences of a candidate that share no line with the claimed set
Unclaimed(cand, occupied) ==
    {r \in {<<cand.occurrences[j][1], cand.occurrences[j][2]>> :
               j \in 1..Len(cand.occurrences)} : Lines(r) \cap occupied = {}}

\* C9: a step of the selection loop takes the candidates in rank order; it
\* accepts the candidate exactly when 2 or more of its occurrences are
\* unclaimed, with those as its matches, the one of smallest start line as
\* primary, and exactly their lines added to the claimed set; a discarded
\* candidate adds none; no claimed line is ever released; the diagnostic's
\* line is the primary's start line.
C9_GreedyAcceptance ==
    [][/\ occupied_lines \subseteq occupied_lines'
       /\ (pc = "select" /\ ci <= Len(candidates)) =>
             LET cand == candidates[ci]
                 free == Unclaimed(cand, occupied_lines)
             IN /\ ci' = ci + 1
                /\ candidates' = candidates
                /\ IF Cardinality(free) >= 2
                   THEN /\ Len(selected') = Len(selected) + 1
                        /\ SubSeq(selected', 1, Len(selected)) = selected
                        /\ LET s == selected'[Len(selected')]
                           IN /\ s.hash = cand.hash
                              /\ {s.matches[j] : j \in 1..Len(s.matches)} = free
                              /\ Len(s.matches) = Cardinality(free)
                              /\ s.count = Cardinality(free)
                              /\ s.primary \in free
                              /\ \A r \in free : s.primary[1] <= r[1]
                        /\ occupied_lines' = occupied_lines \cup UNION {Lines(r) : r \in free}
                   ELSE /\ selected' = selected
                        /\ occupied_lines' = occupied_lines
       /\ (pc = "select" /\ ci > Len(candidates)) =>
             /\ Len(results') = Len(selected)
             /\ \A k \in 1..Len(selected) : results'[k].line = selected[k].primary[1]
      ]_vars

\* a candidate was accepted on fewer occurrences than it has, its primary not
\* its first occurrence, after another candidate was accepted
C9_Witness ==
    /\ pc = "done"
    /\ Len(selected) = 2
    /\ selected[2].count = 2
    /\ candidates[2].count = 4
    /\ selected[2].primary[1] > Min({candidates[2].occurrences[j][1] :
                                       j \in 1..Len(candidates[2].occurrences)})

====
